---- MODULE Spec2Model ----
(***************************************************************************)
(* Model of static/script.js: the dashboard client of the ai-mqtt          *)
(* platform.  The script runs on a single event loop.  Every action below  *)
(* is one macrotask of that loop: a WebSocket event, the settlement of a   *)
(* fetch together with the promise reactions that run right after it, a    *)
(* timer callback, or a DOM event handler.                                 *)
(*                                                                         *)
(* JSON values are modelled as strings ("true", "40", "auto"); a field     *)
(* that is absent from an object reads as Undef, as in JavaScript.         *)
(***************************************************************************)
EXTENDS Integers, Sequences, FiniteSets, TLC

VARIABLES
    wsState,      \* readyState of the WebSocket: "connecting", "open", "closed"
    indicator,    \* classList of .status-indicator (subset of {"online","offline"})
    loadPc,       \* initial GET /api/devices: "pending", "done", "failed"
    display,      \* the device part of the DOM written by updateDeviceStatus
    motionCount,  \* let motionCount (also shown in #motion-count)
    uncaught,     \* number of exceptions that escaped an event handler
    msgs,         \* number of push events delivered so far
    last,         \* the last payload handled: [src, data]
    btn,          \* #simulate-motion: [disabled, label, cls]
    wf,           \* the promise chain of every simulate-motion dispatch
    nDispatch,    \* number of simulate-motion clicks handled so far
    aBtn,         \* #run-analytics: [disabled, label]
    aPc,          \* analytics fetch: "idle", "pending"
    report,       \* rendered report: [results, recs, chart]
    aStart,       \* the rendered report when the running/last fetch was started
    aOutcome,     \* how the last analytics fetch ended: "none", "ok", "failed"
    chartLib,     \* window.Chart is defined
    nReports,     \* number of run-analytics clicks handled so far
    cmds,         \* the command fetches of the switch controls still outstanding
    nCmds         \* number of command fetches the switch controls have sent

pushVars == <<wsState, indicator, loadPc, display, motionCount, uncaught, msgs, last>>
wfVars   == <<btn, wf, nDispatch>>
anVars   == <<aBtn, aPc, report, aStart, aOutcome, chartLib, nReports>>
cmdVars  == <<cmds, nCmds>>
vars     == <<wsState, indicator, loadPc, display, motionCount, uncaught, msgs, last,
              btn, wf, nDispatch, aBtn, aPc, report, aStart, aOutcome, chartLib,
              nReports, cmds, nCmds>>

----------------------------------------------------------------------------
(* Bounds of the model *)

MaxMsgs == 2
MaxDispatch == 2
MaxReports == 2
\* The most fields one payload may leave out of the snapshots it carries.
MaxAbsent == 1
\* The longest recommendation list of a report.
MaxRecs == 2
\* The most command fetches the switch controls send.
MaxCmds == 2

----------------------------------------------------------------------------
(* JSON payloads *)

Undef == "undefined"

\* Values a boolean field of a snapshot may carry.
BoolField == {"true", "false", Undef}
BrightnessField == {"40", Undef}
PowerField == {"5", "150", Undef}
ModeField == {"auto", Undef}
LocationField == {"kitchen", "unknown", Undef}
SensitivityField == {"7", Undef}
ElapsedField == {"3", Undef}

SwitchSnapshots ==
    [is_on : BoolField, brightness : BrightnessField,
     power_consumption : PowerField, mode : ModeField]

MotionSnapshots ==
    [motion_detected : BoolField, location : LocationField,
     sensitivity : SensitivityField, time_since_motion : ElapsedField]

\* An optional member of a JSON object: <<>> when the key is absent.
Opt(S) == {<<>>} \cup {<<s>> : s \in S}

\* The fields a snapshot leaves out.
AbsentFields(snapshot) == {f \in DOMAIN snapshot : snapshot[f] = Undef}

AbsentCount(opt) == IF opt = <<>> THEN 0 ELSE Cardinality(AbsentFields(opt[1]))

\* A parsed payload: an object keyed by entity id, each entity optional, each
\* snapshot possibly partial.
Payloads ==
    {p \in [sw : Opt(SwitchSnapshots), mo : Opt(MotionSnapshots)] :
        AbsentCount(p.sw) + AbsentCount(p.mo) <= MaxAbsent}

\* The payloads that carry only a full motion-1 snapshot.
MotionPayloads == {p \in Payloads : p.sw = <<>> /\ p.mo # <<>> /\ AbsentCount(p.mo) = 0}

EmptyPayload == [sw |-> <<>>, mo |-> <<>>]

\* JavaScript truthiness of a field of the modelled domain.
Truthy(v) == v = "true"

\* Number(v) for the numeric strings of the model.
NumOf(v) == CASE v = "5" -> 5 [] v = "40" -> 40 [] v = "150" -> 150 [] v = "7" -> 7
              [] v = "3" -> 3 [] OTHER -> 0

Min(a, b) == IF a < b THEN a ELSE b

\* The <option> values of #location-select, in document order.
LocationOptions == <<"living_room", "kitchen">>

----------------------------------------------------------------------------
(* The device display *)

\* #switch-status and #motion-status before anything was rendered into them.
NoSwitchStatus == [power |-> "", brightness |-> "", power_consumption |-> "", mode |-> ""]
NoMotionStatus == [motion |-> "", location |-> "", sensitivity |-> "",
                   time_since_motion |-> ""]

\* The value a range input takes when it is assigned a string that is no number.
SliderDefault == "default"

InitDisplay ==
    [switch_status     |-> NoSwitchStatus,
     switch_toggle     |-> FALSE,
     switch_card       |-> FALSE,
     brightness_slider |-> SliderDefault,
     brightness_value  |-> "",
     power_fill        |-> 0,
     power_value       |-> "",
     total_power       |-> "",
     motion_status     |-> NoMotionStatus,
     motion_badge      |-> [text |-> "No Motion", active |-> FALSE],
     location_select   |-> LocationOptions[1]]

\* The if (data['switch-1']) branch of updateDeviceStatus.
RenderSwitch(d, switchData) ==
    [d EXCEPT
       !.switch_status = [power |-> IF Truthy(switchData.is_on) THEN "ON" ELSE "OFF",
                          brightness |-> switchData.brightness,
                          power_consumption |-> switchData.power_consumption,
                          mode |-> switchData.mode],
       !.switch_toggle = Truthy(switchData.is_on),
       !.switch_card = Truthy(switchData.is_on),
       !.brightness_slider = IF switchData.brightness = Undef THEN SliderDefault
                             ELSE switchData.brightness,
       !.brightness_value = switchData.brightness,
       \* style.width = "NaN%" is dropped by the CSS parser: the old width stays
       !.power_fill = IF switchData.power_consumption = Undef THEN @
                      ELSE Min(100, (NumOf(switchData.power_consumption) * 100) \div 100),
       !.power_value = switchData.power_consumption,
       !.total_power = switchData.power_consumption]

\* The loop over locationSelect.options of updateDeviceStatus.
SelectLocation(current, location) ==
    IF current # location /\ location # "unknown"
       /\ \E i \in 1..Len(LocationOptions) : LocationOptions[i] = location
    THEN location
    ELSE current

\* The if (data['motion-1']) branch of updateDeviceStatus.
RenderMotion(d, motionData) ==
    [d EXCEPT
       !.motion_status = [motion |-> IF Truthy(motionData.motion_detected)
                                     THEN "DETECTED" ELSE "NONE",
                          location |-> motionData.location,
                          sensitivity |-> motionData.sensitivity,
                          time_since_motion |->
                              IF motionData.time_since_motion = Undef THEN "N/A"
                              ELSE motionData.time_since_motion],
       !.motion_badge = IF Truthy(motionData.motion_detected)
                        THEN [text |-> "Motion Detected!", active |-> TRUE]
                        ELSE [text |-> "No Motion", active |-> FALSE],
       !.location_select = SelectLocation(@, motionData.location)]

\* function updateDeviceStatus(data)
updateDeviceStatus(d, data) ==
    LET d1 == IF data.sw # <<>> THEN RenderSwitch(d, data.sw[1]) ELSE d
    IN  IF data.mo # <<>> THEN RenderMotion(d1, data.mo[1]) ELSE d1

\* The "Track motion events" block of ws.onmessage.
TrackMotion(count, data) ==
    IF data.mo # <<>> /\ Truthy(data.mo[1].motion_detected) THEN count + 1 ELSE count

----------------------------------------------------------------------------
(* Initial state: the page right after the DOMContentLoaded handler ran *)

NoDispatch == [pc |-> "none", location |-> "", r1 |-> "none", r2 |-> "none",
               timer |-> "none"]

\* An analytics report as parsed from the response body.
RecLists == UNION {[1..n -> {"r1", "r2"}] : n \in 0..MaxRecs}
DeviceLists == {<<>>, <<[device |-> "switch-1", power_usage |-> "5"]>>,
                <<[device |-> "switch-1", power_usage |-> "5"],
                  [device |-> "motion-1", power_usage |-> Undef]>>}
Reports == [recommendations : Opt(RecLists), per_device : Opt(DeviceLists)]

EmptyReport == [recommendations |-> <<>>, per_device |-> <<>>]

\* #analytics-results, #recommendations-list and the chart before the first report.
NoReport == [results |-> [kind |-> "none", data |-> EmptyReport], recs |-> <<>>,
             chart |-> <<>>]

InitPage ==
    /\ wsState = "connecting"
    /\ indicator = {}
    /\ loadPc = "pending"
    /\ display = InitDisplay
    /\ motionCount = 0
    /\ uncaught = 0
    /\ msgs = 0
    /\ last = [src |-> "none", data |-> EmptyPayload]
    /\ btn = [disabled |-> FALSE, label |-> "idle", cls |-> "btn-primary"]
    /\ wf = [d \in 1..MaxDispatch |-> NoDispatch]
    /\ nDispatch = 0
    /\ aBtn = [disabled |-> FALSE, label |-> "idle"]
    /\ aPc = "idle"
    /\ report = NoReport
    /\ aStart = NoReport
    /\ aOutcome = "none"
    /\ nReports = 0
    /\ cmds = <<>>
    /\ nCmds = 0

\* The charting library is loaded.
Init == InitPage /\ chartLib = TRUE

\* The charting library may have failed to load.
InitAnalytics == InitPage /\ chartLib \in BOOLEAN

----------------------------------------------------------------------------
(* The push channel *)

\* ws.onopen without line 29.
WsOpenNotOnline ==
    /\ wsState = "connecting"
    /\ wsState' = "open"
    /\ indicator' = indicator \ {"offline"}
    /\ UNCHANGED <<loadPc, display, motionCount, uncaught, msgs, last>>
    /\ UNCHANGED <<wfVars, anVars, cmdVars>>

\* ws.onopen
WsOpen ==
    /\ wsState = "connecting"
    /\ wsState' = "open"
    /\ indicator' = (indicator \cup {"online"}) \ {"offline"}
    /\ UNCHANGED <<loadPc, display, motionCount, uncaught, msgs, last>>
    /\ UNCHANGED <<wfVars, anVars, cmdVars>>

\* ws.onclose without line 35.
WsCloseKeepsOnline ==
    /\ wsState \in {"connecting", "open"}
    /\ wsState' = "closed"
    /\ indicator' = indicator \cup {"offline"}
    /\ UNCHANGED <<loadPc, display, motionCount, uncaught, msgs, last>>
    /\ UNCHANGED <<wfVars, anVars, cmdVars>>

\* ws.onclose: after an open, or when the connection could not be made
WsClose ==
    /\ wsState \in {"connecting", "open"}
    /\ wsState' = "closed"
    /\ indicator' = (indicator \ {"online"}) \cup {"offline"}
    /\ UNCHANGED <<loadPc, display, motionCount, uncaught, msgs, last>>
    /\ UNCHANGED <<wfVars, anVars, cmdVars>>

\* ws.onmessage with a payload that JSON.parse accepts
OnMessage(data) ==
    /\ wsState = "open"
    /\ msgs < MaxMsgs
    /\ msgs' = msgs + 1
    /\ display' = updateDeviceStatus(display, data)
    /\ motionCount' = TrackMotion(motionCount, data)
    /\ last' = [src |-> "push", data |-> data]
    /\ UNCHANGED <<wsState, indicator, loadPc, uncaught>>
    /\ UNCHANGED <<wfVars, anVars, cmdVars>>

\* ws.onmessage with a payload that JSON.parse rejects: the SyntaxError leaves
\* the handler, nothing after line 16 runs
OnMalformed ==
    /\ wsState = "open"
    /\ msgs < MaxMsgs
    /\ msgs' = msgs + 1
    /\ uncaught' = uncaught + 1
    /\ last' = [src |-> "malformed", data |-> EmptyPayload]
    /\ UNCHANGED <<wsState, indicator, loadPc, display, motionCount>>
    /\ UNCHANGED <<wfVars, anVars, cmdVars>>

\* Initial device status load: the response of GET /api/devices parsed as JSON
LoadResolve(data) ==
    /\ loadPc = "pending"
    /\ loadPc' = "done"
    /\ display' = updateDeviceStatus(display, data)
    /\ last' = [src |-> "load", data |-> data]
    /\ UNCHANGED <<wsState, indicator, motionCount, uncaught, msgs>>
    /\ UNCHANGED <<wfVars, anVars, cmdVars>>

\* Initial device status load: the fetch or response.json() rejects (.catch)
LoadReject ==
    /\ loadPc = "pending"
    /\ loadPc' = "failed"
    /\ UNCHANGED <<wsState, indicator, display, motionCount, uncaught, msgs, last>>
    /\ UNCHANGED <<wfVars, anVars, cmdVars>>

NextPush ==
    \/ WsOpen
    \/ WsClose
    \/ \E data \in Payloads : OnMessage(data)
    \/ OnMalformed
    \/ \E data \in Payloads : LoadResolve(data)
    \/ LoadReject

SpecPush == Init /\ [][NextPush]_vars

----------------------------------------------------------------------------
(* The simulate-motion workflow: set_location, then simulate_motion *)

\* What a command fetch that settles by resolving may report: fetch resolves
\* for every HTTP status, 2xx ("ok") or not ("status_fail").
Statuses == {"ok", "status_fail"}

Running == {"step1", "step2"}
Terminal == {"succeeded", "failed"}

\* The click handler without line 81.
ClickButtonStaysEnabled(b) == [b EXCEPT !.label = "simulating"]

\* Lines 81-82: the button while the workflow runs.
ClickButton(b) == [b EXCEPT !.disabled = TRUE, !.label = "simulating"]

\* Both requests sent from the click handler, the second one not chained.
DispatchedTogether(location) ==
    [pc |-> "step2", location |-> location, r1 |-> "none", r2 |-> "none",
     timer |-> "none"]

\* Lines 84-93: the chain right after the click handler returned: the
\* set_location request is out, nothing else is.
Dispatched(location) ==
    [pc |-> "step1", location |-> location, r1 |-> "none", r2 |-> "none",
     timer |-> "none"]

\* Lines 93-104: the first reaction runs when set_location resolved, whatever
\* its status, and sends simulate_motion.
Step1Fulfilled(w, status) == [w EXCEPT !.pc = "step2", !.r1 = status]

\* Lines 104-121: the second reaction runs when simulate_motion resolved,
\* whatever its status, and arms the reset timer.
Step2Fulfilled(w, status) ==
    [w EXCEPT !.pc = "succeeded", !.r2 = status, !.timer = "pending"]

\* A rejection of set_location handled before the second reaction, so that
\* the chain goes on to simulate_motion.
RejectedThenContinues(w, step) ==
    IF step = 1 THEN [w EXCEPT !.pc = "step2", !.r1 = "net_fail"]
    ELSE [w EXCEPT !.pc = "failed", !.r2 = "net_fail", !.timer = "pending"]

\* Lines 122-129: a rejection of either fetch skips the remaining reactions
\* and reaches the catch, which arms the label timer.
Rejected(w, step) ==
    IF step = 1 THEN [w EXCEPT !.pc = "failed", !.r1 = "net_fail", !.timer = "pending"]
    ELSE [w EXCEPT !.pc = "failed", !.r2 = "net_fail", !.timer = "pending"]

\* The success feedback without line 108.
SuccessButtonKeepsLabel(b) == [b EXCEPT !.cls = "btn-success"]

\* Lines 106-108: the success feedback on the button.
SuccessButton(b) == [b EXCEPT !.cls = "btn-success", !.label = "success"]

\* Lines 124-125: the error feedback on the button.
CatchButton(b) == [b EXCEPT !.disabled = FALSE, !.label = "error"]

\* Lines 116-121 and 126-128: what the timer callback of a chain does.
ResetButton(b, outcome) ==
    IF outcome = "succeeded"
    THEN [b EXCEPT !.disabled = FALSE, !.cls = "btn-primary", !.label = "idle"]
    ELSE [b EXCEPT !.label = "idle"]

\* The request for simulate_motion of a chain has been sent.
Sent2(w) == w.pc = "step2" \/ w.r2 # "none"

\* click on #simulate-motion (a disabled button dispatches no click)
Click ==
    /\ ~btn.disabled
    /\ nDispatch < MaxDispatch
    /\ nDispatch' = nDispatch + 1
    /\ btn' = ClickButton(btn)
    /\ wf' = [wf EXCEPT ![nDispatch + 1] = Dispatched(display.location_select)]
    /\ UNCHANGED <<pushVars, anVars, cmdVars>>

\* the set_location fetch resolves
Step1Resolve(d, status) ==
    /\ wf[d].pc = "step1"
    /\ wf' = [wf EXCEPT ![d] = Step1Fulfilled(@, status)]
    /\ UNCHANGED <<btn, nDispatch, pushVars, anVars, cmdVars>>

\* the set_location fetch rejects
Step1Reject(d) ==
    /\ wf[d].pc = "step1"
    /\ wf' = [wf EXCEPT ![d] = Rejected(@, 1)]
    /\ btn' = CatchButton(btn)
    /\ UNCHANGED <<nDispatch, pushVars, anVars, cmdVars>>

\* the simulate_motion fetch resolves
Step2Resolve(d, status) ==
    /\ wf[d].pc = "step2"
    /\ wf' = [wf EXCEPT ![d] = Step2Fulfilled(@, status)]
    /\ btn' = SuccessButton(btn)
    /\ display' = [display EXCEPT
                     !.motion_badge = [text |-> "Motion Detected!", active |-> TRUE]]
    /\ UNCHANGED <<wsState, indicator, loadPc, motionCount, uncaught, msgs, last>>
    /\ UNCHANGED <<nDispatch, anVars, cmdVars>>

\* the simulate_motion fetch rejects
Step2Reject(d) ==
    /\ wf[d].pc = "step2"
    /\ wf' = [wf EXCEPT ![d] = Rejected(@, 2)]
    /\ btn' = CatchButton(btn)
    /\ UNCHANGED <<nDispatch, pushVars, anVars, cmdVars>>

\* a setTimeout(..., 2000) callback runs; timers of equal delay fire in the
\* order they were armed
TimerFire(d) ==
    /\ wf[d].timer = "pending"
    /\ \A e \in 1..MaxDispatch : e < d => wf[e].timer # "pending"
    /\ wf' = [wf EXCEPT ![d].timer = "fired"]
    /\ btn' = ResetButton(btn, wf[d].pc)
    /\ UNCHANGED <<nDispatch, pushVars, anVars, cmdVars>>

NextWorkflow ==
    \/ Click
    \/ \E d \in 1..MaxDispatch, status \in Statuses : Step1Resolve(d, status)
    \/ \E d \in 1..MaxDispatch : Step1Reject(d)
    \/ \E d \in 1..MaxDispatch, status \in Statuses : Step2Resolve(d, status)
    \/ \E d \in 1..MaxDispatch : Step2Reject(d)
    \/ \E d \in 1..MaxDispatch : TimerFire(d)
    \/ WsOpen
    \/ WsClose
    \/ \E data \in MotionPayloads : OnMessage(data)
    \/ \E data \in MotionPayloads : LoadResolve(data)
    \/ LoadReject

SpecWorkflow == Init /\ [][NextWorkflow]_vars

----------------------------------------------------------------------------
(* The analytics report *)

Placeholder == "No recommendations available"

\* Lines 300-301 and 316-328 of createEnergyChart: labels and their power values.
createEnergyChart(data) ==
    <<[labels |-> [i \in 1..Len(data.per_device[1]) |-> data.per_device[1][i].device],
       powerData |-> [i \in 1..Len(data.per_device[1]) |->
                         data.per_device[1][i].power_usage]]>>

\* The recommendation list without the else branch of lines 155-157.
RenderRecommendationsNoPlaceholder(data) ==
    IF data.recommendations # <<>> THEN data.recommendations[1] ELSE <<>>

\* Lines 146-157: the recommendation list of a report.
RenderRecommendations(data) ==
    IF data.recommendations # <<>> /\ Len(data.recommendations[1]) > 0
    THEN data.recommendations[1]
    ELSE <<Placeholder>>

\* Lines 141-162: the reaction that renders a parsed report.
RenderReport(r, data) ==
    [results |-> [kind |-> "report", data |-> data],
     recs |-> RenderRecommendations(data),
     chart |-> IF chartLib /\ data.per_device # <<>> THEN createEnergyChart(data)
               ELSE r.chart]

\* Lines 170-171: the catch writes the error into #analytics-results.
RenderError(r) == [r EXCEPT !.results = [kind |-> "error", data |-> EmptyReport]]

\* Lines 165-166 and 172-173
ResetAnalyticsButton(b) == [b EXCEPT !.disabled = FALSE, !.label = "idle"]

\* click on #run-analytics (a disabled button dispatches no click)
AnalyticsClick ==
    /\ ~aBtn.disabled
    /\ nReports < MaxReports
    /\ nReports' = nReports + 1
    /\ aBtn' = [aBtn EXCEPT !.disabled = TRUE, !.label = "analyzing"]
    /\ aPc' = "pending"
    /\ aStart' = report
    /\ aOutcome' = "none"
    /\ UNCHANGED <<report, chartLib, pushVars, wfVars, cmdVars>>

\* A render that also copies the report's switch-1 power into #total-power.
AnalyticsResolveMerged(data) ==
    /\ aPc = "pending"
    /\ aPc' = "idle"
    /\ report' = [results |-> [kind |-> "report", data |-> data],
                  recs |-> IF data.recommendations # <<>>
                              /\ Len(data.recommendations[1]) > 0
                           THEN data.recommendations[1]
                           ELSE <<"No recommendations available">>,
                  chart |-> report.chart]
    /\ aBtn' = [aBtn EXCEPT !.disabled = FALSE, !.label = "idle"]
    /\ aOutcome' = "ok"
    /\ display' = [display EXCEPT
                     !.total_power = IF data.per_device # <<>>
                                        /\ Len(data.per_device[1]) > 0
                                     THEN data.per_device[1][1].power_usage ELSE @]
    /\ UNCHANGED <<wsState, indicator, loadPc, motionCount, uncaught, msgs, last>>
    /\ UNCHANGED <<aStart, chartLib, nReports, wfVars, cmdVars>>

\* the fetch resolves and its body parses to a report object
AnalyticsResolve(data) ==
    /\ aPc = "pending"
    /\ aPc' = "idle"
    /\ report' = RenderReport(report, data)
    /\ aBtn' = ResetAnalyticsButton(aBtn)
    /\ aOutcome' = "ok"
    /\ UNCHANGED <<aStart, chartLib, nReports, pushVars, wfVars, cmdVars>>

\* the fetch rejects, or response.json() rejects
AnalyticsReject ==
    /\ aPc = "pending"
    /\ aPc' = "idle"
    /\ report' = RenderError(report)
    /\ aBtn' = ResetAnalyticsButton(aBtn)
    /\ aOutcome' = "failed"
    /\ UNCHANGED <<aStart, chartLib, nReports, pushVars, wfVars, cmdVars>>

\* the body parses to null: lines 142-147 run, data.recommendations throws
\* a TypeError and the catch runs
AnalyticsNull ==
    /\ aPc = "pending"
    /\ aPc' = "idle"
    /\ report' = RenderError([report EXCEPT !.recs = <<>>])
    /\ aBtn' = ResetAnalyticsButton(aBtn)
    /\ aOutcome' = "failed"
    /\ UNCHANGED <<aStart, chartLib, nReports, pushVars, wfVars, cmdVars>>

NextAnalytics ==
    \/ AnalyticsClick
    \/ \E data \in Reports : AnalyticsResolve(data)
    \/ AnalyticsReject
    \/ AnalyticsNull
    \/ WsOpen
    \/ WsClose
    \/ \E data \in MotionPayloads : OnMessage(data)

SpecAnalytics == InitAnalytics /\ [][NextAnalytics]_vars

----------------------------------------------------------------------------
(* Properties of the push channel, under SpecPush *)

\* A step that merged a payload into the display: a push message or the
\* initial load.  The payload is last'.data.
MergeStep ==
    \/ msgs' = msgs + 1 /\ last'.src = "push"
    \/ loadPc = "pending" /\ loadPc' = "done"

\* What the display shows for a field of a snapshot.
SwitchShown(d, f) ==
    CASE f = "is_on" -> d.switch_status.power
      [] f = "brightness" -> d.switch_status.brightness
      [] f = "power_consumption" -> d.switch_status.power_consumption
      [] f = "mode" -> d.switch_status.mode

MotionShown(d, f) ==
    CASE f = "motion_detected" -> d.motion_status.motion
      [] f = "location" -> d.motion_status.location
      [] f = "sensitivity" -> d.motion_status.sensitivity
      [] f = "time_since_motion" -> d.motion_status.time_since_motion

\* The display holds a value for the field: something was rendered, and it was
\* not the rendering of an absent field.
Known(v) == v \notin {"", Undef, "N/A"}

\* C1: merging a push message or the initial load overlays only the fields
\* present in the incoming snapshot: a field known before and absent from the
\* payload shows its previous value afterwards.
C1_MergeIsFieldPartial ==
    [][MergeStep =>
         /\ last'.data.sw # <<>> =>
              \A f \in AbsentFields(last'.data.sw[1]) :
                  Known(SwitchShown(display, f))
                      => SwitchShown(display', f) = SwitchShown(display, f)
         /\ last'.data.mo # <<>> =>
              \A f \in AbsentFields(last'.data.mo[1]) :
                  Known(MotionShown(display, f))
                      => MotionShown(display', f) = MotionShown(display, f)]_vars

\* C2: the motion counter is edge-triggered: a push message reporting motion
\* increments it by one when the previously known flag was false, and not at
\* all when the previously known flag was already true; a message that does
\* not report motion never increments it.
C2_CounterIsEdgeTriggered ==
    [][(msgs' = msgs + 1 /\ last'.src = "push") =>
         LET reports == last'.data.mo # <<>>
                        /\ Truthy(last'.data.mo[1].motion_detected)
             before == display.motion_status.motion
         IN  /\ (reports /\ before = "NONE") => motionCount' = motionCount + 1
             /\ (reports /\ before = "DETECTED") => motionCount' = motionCount
             /\ ~reports => motionCount' = motionCount]_vars

\* C3: a push message that does not parse leaves the device display and the
\* motion counter as they were and no exception leaves the message handler.
C3_MalformedIsDropped ==
    [][(msgs' = msgs + 1 /\ last'.src = "malformed") =>
         /\ display' = display
         /\ motionCount' = motionCount
         /\ uncaught' = uncaught]_vars

\* C10: processing the same push message twice in a row yields the local state
\* that processing it once yields: the second delivery changes nothing.
C10_RedeliveryIsIdempotent ==
    [][(msgs' = msgs + 1 /\ last.src = "push" /\ last'.src = "push"
        /\ last'.data = last.data) =>
         /\ display' = display
         /\ motionCount' = motionCount]_vars

----------------------------------------------------------------------------
(* Properties of the simulate-motion workflow, under SpecWorkflow *)

Dispatches == 1..MaxDispatch

\* C4: when the network call of a step fails, the workflow stops: no later
\* step is sent, the chain ends failed with the error shown on the button, a
\* failed chain never moves again, and the success feedback appears only in a
\* step in which a chain whose two calls resolved completes.
C4_NetworkFailureAborts ==
    [][/\ \A d \in Dispatches :
            /\ (wf[d].pc = "step1" /\ wf'[d].r1 = "net_fail") =>
                 (wf'[d].pc = "failed" /\ ~Sent2(wf'[d]) /\ btn'.label = "error")
            /\ (wf[d].pc = "step2" /\ wf'[d].r2 = "net_fail") =>
                 (wf'[d].pc = "failed" /\ btn'.label = "error")
            /\ wf[d].pc = "failed" =>
                 (wf'[d].pc = "failed" /\ wf'[d].r1 = wf[d].r1
                  /\ wf'[d].r2 = wf[d].r2)
       /\ (btn'.label = "success" /\ btn.label # "success") =>
            \E d \in Dispatches :
                /\ wf[d].pc = "step2" /\ wf'[d].pc = "succeeded"
                /\ wf'[d].r1 \in Statuses /\ wf'[d].r2 \in Statuses]_vars

\* C4 witness: a dispatch whose first call failed and one whose first call
\* resolved and whose second call failed, both ended failed.
C4_Witness ==
    /\ \E d \in Dispatches : wf[d].pc = "failed" /\ wf[d].r1 = "net_fail"
    /\ \E d \in Dispatches :
           wf[d].pc = "failed" /\ wf[d].r1 = "ok" /\ wf[d].r2 = "net_fail"

\* C5: a step whose call completes with a failure status is a failed step:
\* the next step is not sent and the workflow ends failed.
C5_FailureStatusHalts ==
    \A d \in Dispatches :
        /\ wf[d].r1 = "status_fail" => (~Sent2(wf[d]) /\ wf[d].pc = "failed")
        /\ wf[d].r2 = "status_fail" => wf[d].pc = "failed"

\* C6: while a workflow runs its trigger is disabled, and at most one
\* execution of the workflow is in flight.
C6_AtMostOneInFlight ==
    /\ Cardinality({d \in Dispatches : wf[d].pc \in Running}) <= 1
    /\ (\E d \in Dispatches : wf[d].pc \in Running) => btn.disabled

\* C6 witness: a dispatch is in flight, with the button disabled, after an
\* earlier one has ended.
C6_Witness ==
    \E d, e \in Dispatches :
        wf[d].pc \in Terminal /\ wf[e].pc = "step2" /\ btn.disabled

\* C8: from the terminal status of a workflow until its cool-down timer fires
\* the outcome stays on the button, which is not back at its idle affordance.
C8_OutcomeHeldForCoolDown ==
    \A d \in Dispatches :
        (wf[d].pc \in Terminal /\ wf[d].timer = "pending") =>
            /\ btn.label = (IF wf[d].pc = "succeeded" THEN "success" ELSE "error")
            /\ ~(~btn.disabled /\ btn.label = "idle")

\* C9: the request of step 2 is never sent before step 1 has resolved.
C9_StepsInProgramOrder ==
    \A d \in Dispatches : Sent2(wf[d]) => wf[d].r1 \in Statuses

\* C9 witness: step 2 is out after step 1 resolved, with a push message
\* delivered meanwhile.
C9_Witness ==
    \E d \in Dispatches : wf[d].pc = "step2" /\ wf[d].r1 = "ok" /\ msgs > 0

----------------------------------------------------------------------------
(* Properties of the analytics report, under SpecAnalytics *)

\* C7: after a failed analytics fetch the report rendered before the fetch
\* was started (results pane, recommendation list, chart) is unchanged.
C7_FailedFetchKeepsReport ==
    (aOutcome = "failed" /\ aStart.results.kind = "report") => report = aStart

----------------------------------------------------------------------------
(* Connectivity and the device display, under SpecWorkflow *)

\* The response of the initial load is rendered in this step.
LoadStep == loadPc = "pending" /\ loadPc' = "done"

\* A push message is handled in this step.
PushStep == msgs' = msgs + 1

\* The success reaction of a simulate-motion chain runs in this step.
SuccessStep == \E d \in Dispatches : wf[d].pc = "step2" /\ wf'[d].pc = "succeeded"

\* What the display shows of switch-1 and of motion-1.
SwitchDisplay(d) ==
    <<d.switch_status, d.switch_toggle, d.switch_card, d.brightness_slider,
      d.brightness_value, d.power_fill, d.power_value, d.total_power>>

MotionDisplay(d) == <<d.motion_status, d.motion_badge, d.location_select>>

C12_DispatcherLeavesDisplay ==
    [][(wf' # wf \/ btn' # btn) => display' = display]_vars

\* C15: the indicator is never online and offline at once; it is online
\* exactly while the channel is open (after an open not followed by a close)
\* and offline exactly once the channel has closed, with or without an open
\* before the close.
C15_ConnectivityFollowsChannel ==
    /\ ~({"online", "offline"} \subseteq indicator)
    /\ ("online" \in indicator) <=> (wsState = "open")
    /\ ("offline" \in indicator) <=> (wsState = "closed")

\* C15 witness: the channel closed after it had been open and had delivered
\* a message, and the indicator is offline only.
C15_Witness == wsState = "closed" /\ msgs > 0 /\ indicator = {"offline"}

\* C17: when both calls of a workflow succeed the chain ends succeeded, with
\* the success feedback shown in that step, and is never failed.
C17_BothStepsSucceed ==
    [][\A d \in Dispatches :
         (wf'[d].r1 = "ok" /\ wf'[d].r2 = "ok") =>
             /\ wf'[d].pc = "succeeded"
             /\ wf[d].r2 # "ok" =>
                  (btn'.label = "success" /\ btn'.cls = "btn-success")]_vars

\* C17 witness: a chain whose two calls returned ok has ended succeeded.
C17_Witness ==
    \E d \in Dispatches :
        wf[d].r1 = "ok" /\ wf[d].r2 = "ok" /\ wf[d].pc = "succeeded"
        /\ wf[d].timer = "fired"

\* C18: the initial-load response never replaces state taken from a push
\* message: when the last payload rendered was a push message, rendering the
\* initial-load response leaves the display of every entity of that message
\* as it was.
C18_LoadKeepsPushedState ==
    [][(LoadStep /\ last.src = "push") =>
         /\ last.data.sw # <<>> => SwitchDisplay(display') = SwitchDisplay(display)
         /\ last.data.mo # <<>> => MotionDisplay(display') = MotionDisplay(display)]_vars

\* C19: whenever a workflow is in flight the button carries the running label.
C19_LabelAgreesWithStatus ==
    (\E d \in Dispatches : wf[d].pc \in Running) =>
        (btn.disabled /\ btn.label = "simulating")

----------------------------------------------------------------------------
(* More properties of the analytics report, under SpecAnalytics *)

\* C14: after a report was rendered the recommendation list is never empty:
\* it holds the one placeholder entry when the report's recommendations are
\* absent or empty, and otherwise exactly the report's recommendations, in
\* order, whatever the list held before.
C14_RecommendationsNeverEmpty ==
    aOutcome = "ok" =>
        LET given == report.results.data.recommendations
        IN  /\ Len(report.recs) >= 1
            /\ report.recs = IF given = <<>> \/ given[1] = <<>>
                             THEN <<Placeholder>> ELSE given[1]

\* C14 witness: a report with an empty recommendation list was rendered over
\* one that had listed two recommendations.
C14_Witness ==
    /\ aOutcome = "ok"
    /\ report.results.data.recommendations = << <<>> >>
    /\ report.recs = <<Placeholder>>
    /\ aStart.recs = <<"r1", "r2">>

\* C16: no step of an analytics request (its start, its rendering, its
\* failure) changes the device display or the motion counter.
C16_ReportLeavesDeviceState ==
    [][(aPc' # aPc \/ report' # report \/ aBtn' # aBtn) =>
         (display' = display /\ motionCount' = motionCount)]_vars

\* C16 witness: with a push message on display, one report was rendered and
\* a second request failed.
C16_Witness ==
    /\ aOutcome = "failed" /\ aStart.results.kind = "report"
    /\ msgs > 0 /\ motionCount > 0

----------------------------------------------------------------------------
(* The switch controls: fire-and-forget command fetches *)

\* Positions the operator may drag #brightness-slider to.
SliderPositions == {"40", "60"}

\* Lines 43-51: the request body of the toggle handler.
ToggleCommand(isOn) ==
    [action |-> IF isOn THEN "turn_on" ELSE "turn_off", brightness |-> ""]

\* Lines 63-72: the request body of the slider handler.
BrightnessCommand(value) == [action |-> "set_brightness", brightness |-> value]

\* cmds without its i-th request.
Settled(i) == [j \in 1..(Len(cmds) - 1) |-> IF j < i THEN cmds[j] ELSE cmds[j + 1]]

\* change on #switch-toggle: the operator flipped the checkbox
ToggleChange ==
    /\ nCmds < MaxCmds
    /\ nCmds' = nCmds + 1
    /\ display' = [display EXCEPT !.switch_toggle = ~@]
    /\ cmds' = Append(cmds, ToggleCommand(display'.switch_toggle))
    /\ UNCHANGED <<wsState, indicator, loadPc, motionCount, uncaught, msgs, last>>
    /\ UNCHANGED <<wfVars, anVars>>

\* input on #brightness-slider: the operator drags the slider
SliderInput(value) ==
    /\ display.brightness_slider # value
    /\ display' = [display EXCEPT !.brightness_slider = value,
                                  !.brightness_value = value]
    /\ UNCHANGED <<wsState, indicator, loadPc, motionCount, uncaught, msgs, last>>
    /\ UNCHANGED <<wfVars, anVars, cmdVars>>

\* change on #brightness-slider: the operator released the slider
SliderChange ==
    /\ nCmds < MaxCmds
    /\ nCmds' = nCmds + 1
    /\ cmds' = Append(cmds, BrightnessCommand(display.brightness_slider))
    /\ UNCHANGED <<pushVars, wfVars, anVars>>

\* a command fetch of the switch controls resolves: nothing reacts to it
CommandResolve(i) ==
    /\ i \in 1..Len(cmds)
    /\ cmds' = Settled(i)
    /\ UNCHANGED <<nCmds, pushVars, wfVars, anVars>>

\* a command fetch of the switch controls rejects: the promise has no
\* rejection handler, the rejection is reported as unhandled
CommandReject(i) ==
    /\ i \in 1..Len(cmds)
    /\ cmds' = Settled(i)
    /\ uncaught' = uncaught + 1
    /\ UNCHANGED <<wsState, indicator, loadPc, display, motionCount, msgs, last>>
    /\ UNCHANGED <<nCmds, wfVars, anVars>>

NextCommands ==
    \/ ToggleChange
    \/ \E value \in SliderPositions : SliderInput(value)
    \/ SliderChange
    \/ \E i \in 1..MaxCmds : CommandResolve(i)
    \/ \E i \in 1..MaxCmds : CommandReject(i)
    \/ Click
    \/ \E d \in 1..MaxDispatch, status \in Statuses : Step1Resolve(d, status)
    \/ \E d \in 1..MaxDispatch : Step1Reject(d)
    \/ \E d \in 1..MaxDispatch, status \in Statuses : Step2Resolve(d, status)
    \/ \E d \in 1..MaxDispatch : Step2Reject(d)
    \/ \E d \in 1..MaxDispatch : TimerFire(d)

SpecCommands == Init /\ [][NextCommands]_vars

\* C13: every failure of a command's network call is handled where it
\* occurs: no command request, of the switch toggle, of the brightness slider
\* or of a simulate-motion step, fails as an unhandled fault.
C13_CommandFailuresHandled ==
    [][(Len(cmds') < Len(cmds) \/ wf' # wf) => uncaught' = uncaught]_vars

----------------------------------------------------------------------------
(* Termination of the two triggers under fair settlement *)

\* Lines 116-128: once the timer callback of a chain has run, nothing refers
\* to the chain any more; the page keeps no record of it, and the later
\* chains move up.
Forget ==
    /\ nDispatch > 0
    /\ wf[1].timer = "fired"
    /\ wf' = [d \in 1..MaxDispatch |->
                IF d < MaxDispatch THEN wf[d + 1] ELSE NoDispatch]
    /\ nDispatch' = nDispatch - 1
    /\ UNCHANGED <<btn, pushVars, anVars, cmdVars>>

\* The fetch of chain d that is outstanding settles, one way or the other.
SettleStep1(d) == (\E status \in Statuses : Step1Resolve(d, status)) \/ Step1Reject(d)
SettleStep2(d) == (\E status \in Statuses : Step2Resolve(d, status)) \/ Step2Reject(d)

\* The analytics fetch that is outstanding settles, one way or the other.
SettleAnalytics ==
    (\E data \in Reports : AnalyticsResolve(data)) \/ AnalyticsReject \/ AnalyticsNull

NextLive ==
    \/ Click
    \/ \E d \in 1..MaxDispatch : SettleStep1(d)
    \/ \E d \in 1..MaxDispatch : SettleStep2(d)
    \/ \E d \in 1..MaxDispatch : TimerFire(d)
    \/ Forget
    \/ AnalyticsClick
    \/ SettleAnalytics

\* Every network call eventually settles and every timer eventually fires;
\* nothing is assumed about when, or whether, the operator clicks.
FairSettlement ==
    /\ \A d \in 1..MaxDispatch : WF_vars(SettleStep1(d))
    /\ \A d \in 1..MaxDispatch : WF_vars(SettleStep2(d))
    /\ \A d \in 1..MaxDispatch : WF_vars(TimerFire(d))
    /\ WF_vars(Forget)
    /\ WF_vars(SettleAnalytics)

SpecLive == Init /\ [][NextLive]_vars /\ FairSettlement

\* C20: under fair settlement every dispatch of the simulate-motion workflow
\* and every analytics request reaches a terminal outcome, and its trigger
\* is eventually enabled again with the idle label; no trigger stays
\* disabled forever.
C20_TriggersRecover ==
    /\ \A d \in 1..MaxDispatch : []<>(wf[d].pc \notin Running)
    /\ []<>(aPc # "pending")
    /\ btn.disabled ~> (~btn.disabled /\ btn.label = "idle")
    /\ aBtn.disabled ~> (~aBtn.disabled /\ aBtn.label = "idle")

----------------------------------------------------------------------------
(* The whole page *)

Next == NextPush \/ NextWorkflow \/ NextAnalytics \/ NextCommands \/ NextLive

Spec == InitAnalytics /\ [][Next]_vars

====
